---- MODULE Spec2Model ----
(***************************************************************************)
(* Model of the lineage engine of taxonomy.py (class Taxonomy): the rank   *)
(* registry (self.ranks / self.rankset), the ancestor-chain cache          *)
(* (self.cached), the lineage cache (self.taxa) and the three relations    *)
(* nodes, names and source behind the sqlalchemy engine.                   *)
(*                                                                         *)
(* Every method is an operator that takes the store and the instance's     *)
(* state and returns the new state together with the exception it raises   *)
(* (None when it returns); an action applies one method call.  The        *)
(* threads of the last part take lineage statement by statement.           *)
(***************************************************************************)
EXTENDS Integers, Sequences, FiniteSets, TLC

VARIABLES
    nodes,    \* relation nodes: tax_id -> row (parent_id, rank, source_id) or NoRow
    names,    \* relation names: tax_id -> its primary-name rows, in insertion order
    source,   \* relation source: sequence of names, row i has id ToString(i)
    ranks,    \* the list object handed to the constructor as ranks (ncbi.ranks)
    eng,      \* the Taxonomy instances: instance -> its attributes
    raised,   \* the exception the last call raised, None when it returned
    thr       \* the threads that call lineage on instance 1: thread -> its position

vars == <<nodes, names, source, ranks, eng, raised, thr>>

-----------------------------------------------------------------------------
(* Bounds of the model *)

\* number of distinct tax_ids
NumTaxa == 3
\* longest list passed as the taxa argument of write_table
MaxTaxaArg == 2
\* tax_ids without a primary name in the store the program starts with
MaxUnnamed == 1
\* calls of add_node that insert a row
MaxAdded == 1
\* nested calls of _get_lineage the interpreter allows before it raises
\* RuntimeError (sys.getrecursionlimit(), 1000 frames in CPython), scaled
\* to the stores of the model: more than the longest path of NumTaxa taxa
RecursionLimit == 4
\* number of distinct tax_ids of the stores on which the order of queries
\* is compared
OrderTaxa == 4

-----------------------------------------------------------------------------
(* Values *)

\* python's None
None == "None"
\* a tax_id without a row in nodes
NoRow == [parent_id |-> None, rank |-> None, source_id |-> None]
\* an empty dict
EmptyDict == [k \in {} |-> None]
\* what a call that raises hands back instead of a lineage record
NoRecord == [ranks |-> EmptyDict, tax_id |-> None, parent_id |-> None, rank |-> None,
             tax_name |-> None]

\* tax_ids are strings, as in the tests ('1', '1280')
Ids == {ToString(i) : i \in 1..NumTaxa}

\* defaults of Taxonomy.__init__
undefined_rank == "no_rank"
undef_prefix == "below"

\* the rank list handed to the constructor (Taxonomy.ncbi.ranks), root first
InitRanks == <<"root", "genus">>

\* ranks a row of nodes may carry: registered ones, the sentinel, and a
\* label the initial rank list does not hold
StoreRanks == {"root", "genus", undefined_rank, "strain"}

\* names of sources and of new taxa
SourceNames == {"ncbi", "lab"}
TaxNames == {"new taxon"}

\* the fixed fields of a lineage record
MetaKeys == {"tax_id", "parent_id", "rank", "tax_name"}

\* the Taxonomy instances a process constructs over one store
Engines == {1, 2}

\* the threads of the process that share instance 1
Threads == {1, 2}

\* a thread that has not called a method: its position and the locals of
\* lineage, _get_lineage, _rename_undefined and _add_rank
NotStarted ==
    [pc |-> "ready", tax_id |-> None, cur |-> None, stack |-> <<>>, ret |-> <<>>,
     i |-> 0, d |-> EmptyDict, parent_rank |-> None, rank |-> None, idx |-> 0,
     tmp |-> {}, exc |-> None]

\* a thread that does not exist
NoThread == [NotStarted EXCEPT !.pc = "off"]

-----------------------------------------------------------------------------
(* Helpers on sequences and functions *)

Range(s) == {s[i] : i \in DOMAIN s}

\* list.index(x): position of the first occurrence
Index(s, x) == CHOOSE i \in DOMAIN s : s[i] = x /\ \A j \in 1..(i - 1) : s[j] # x

\* a slip in the position: the new element goes to the front of the list
InsertFront(s, i, x) == <<x>> \o s

\* list.insert(i, x) with a 0-based position i <= len(s)
Insert(s, i, x) == SubSeq(s, 1, i) \o <<x>> \o SubSeq(s, i + 1, Len(s))

\* a slip in the assignment: the dict is replaced by one with the new key
PutAlone(d, k, v) == (k :> v)

\* d[k] = v
Put(d, k, v) == (k :> v) @@ d

\* number of occurrences of x in s
Count(s, x) == Cardinality({i \in DOMAIN s : s[i] = x})

\* all orderings of the elements of a finite set, as sequences
Orderings(S) ==
    {f \in [1..Cardinality(S) -> S] : \A i, j \in DOMAIN f : i # j => f[i] # f[j]}

-----------------------------------------------------------------------------
(* Store accessors *)

\* a slip in the lookup: a missing row reads as a root of undefined rank
NodeDefault(nds, tax_id) ==
    IF nds[tax_id] = NoRow
    THEN [exc |-> None, parent_id |-> tax_id, rank |-> undefined_rank]
    ELSE [exc |-> None, parent_id |-> nds[tax_id].parent_id, rank |-> nds[tax_id].rank]

\* Taxonomy._node: the row's (parent_id, rank), KeyError without a row
Node(nds, tax_id) ==
    IF nds[tax_id] = NoRow
    THEN [exc |-> "KeyError", parent_id |-> None, rank |-> None]
    ELSE [exc |-> None, parent_id |-> nds[tax_id].parent_id, rank |-> nds[tax_id].rank]

\* Taxonomy.primary_name: the first primary-name row, KeyError without one
PrimaryName(nms, tax_id) ==
    IF nms[tax_id] = <<>>
    THEN [exc |-> "KeyError", val |-> None]
    ELSE [exc |-> None, val |-> Head(nms[tax_id])]

-----------------------------------------------------------------------------
(* Rank registry.  self.ranks = ranks keeps a reference to the caller's    *)
(* list, so s.ranks below is the contents of that one list object, while  *)
(* self.rankset is a set of the instance's own.                            *)

\* a slip in the position: the new label goes to the end of the list
AddRankAppend(rs, rankset, rank, parent_rank) ==
    IF rank \notin rankset
    THEN IF parent_rank \notin Range(rs)
         THEN [exc |-> "ValueError", ranks |-> rs, rankset |-> rankset]
         ELSE [exc |-> None, ranks |-> Append(rs, rank),
               rankset |-> Range(rs) \cup {rank}]
    ELSE [exc |-> None, ranks |-> rs, rankset |-> Range(rs)]

\* Taxonomy._add_rank: list.index raises ValueError when parent_rank is not
\* in the list, and then the rankset is not rebuilt
AddRank(rs, rankset, rank, parent_rank) ==
    IF rank \notin rankset
    THEN IF parent_rank \notin Range(rs)
         THEN [exc |-> "ValueError", ranks |-> rs, rankset |-> rankset]
         ELSE LET rs2 == Insert(rs, Index(rs, parent_rank), rank)
              IN  [exc |-> None, ranks |-> rs2, rankset |-> Range(rs2)]
    ELSE [exc |-> None, ranks |-> rs, rankset |-> Range(rs)]

\* a slip in the label: the separator is left out
SynthRankNoSeparator(parent_rank) == undef_prefix \o parent_rank

\* the label of a taxon of undefined rank below parent_rank
SynthRank(parent_rank) == undef_prefix \o "_" \o parent_rank

\* Taxonomy._rename_undefined, from position i of the chain on: d is the
\* dict built so far, parent_rank the label of the previous element (None
\* before the first one, and str + None raises TypeError)
RECURSIVE RenameFrom(_, _, _, _, _, _)
RenameFrom(lineage, i, d, parent_rank, rs, rankset) ==
    IF i > Len(lineage)
    THEN [exc |-> None, d |-> d, ranks |-> rs, rankset |-> rankset]
    ELSE LET rank0 == lineage[i][1]
             tax_id == lineage[i][2]
         IN  IF rank0 = undefined_rank
             THEN IF parent_rank = None
                  THEN [exc |-> "TypeError", d |-> d, ranks |-> rs, rankset |-> rankset]
                  ELSE LET rank == SynthRank(parent_rank)
                           a == AddRank(rs, rankset, rank, parent_rank)
                       IN  IF a.exc # None
                           THEN [exc |-> a.exc, d |-> d, ranks |-> a.ranks,
                                 rankset |-> a.rankset]
                           ELSE RenameFrom(lineage, i + 1, Put(d, rank, tax_id), rank,
                                           a.ranks, a.rankset)
             ELSE RenameFrom(lineage, i + 1, Put(d, rank0, tax_id), rank0, rs, rankset)

RenameUndefined(rs, rankset, lineage) ==
    RenameFrom(lineage, 1, EmptyDict, None, rs, rankset)

-----------------------------------------------------------------------------
(* Lineage builder *)

\* a slip in the cache check: the chain is built again though it is cached
RECURSIVE GetLineageFromNoReuse(_, _, _, _)
GetLineageFromNoReuse(nds, cached, tax_id, seen) ==
    IF tax_id \in seen
    THEN [exc |-> "RuntimeError", lineage |-> <<>>, cached |-> cached, lookups |-> 0]
    ELSE LET n == Node(nds, tax_id)
             own == <<<<n.rank, tax_id>>>>
         IN  IF n.exc # None
             THEN [exc |-> n.exc, lineage |-> <<>>, cached |-> cached, lookups |-> 1]
             ELSE IF n.parent_id # tax_id
             THEN LET p == GetLineageFromNoReuse(nds, cached, n.parent_id,
                                                 seen \cup {tax_id})
                  IN  IF p.exc # None
                      THEN [exc |-> p.exc, lineage |-> <<>>, cached |-> cached,
                            lookups |-> p.lookups + 1]
                      ELSE [exc |-> None, lineage |-> p.lineage \o own,
                            cached |-> Put(p.cached, tax_id, p.lineage \o own),
                            lookups |-> p.lookups + 1]
             ELSE [exc |-> None, lineage |-> own, cached |-> Put(cached, tax_id, own),
                   lookups |-> 1]

\* Taxonomy._get_lineage.  seen holds the tax_ids of the active calls: a
\* walk that comes back to one of them recurses without end and the
\* interpreter aborts it (RuntimeError, maximum recursion depth exceeded).
\* lookups counts the calls of _node.
RECURSIVE GetLineageFrom(_, _, _, _)
GetLineageFrom(nds, cached, tax_id, seen) ==
    IF tax_id \in DOMAIN cached
    THEN [exc |-> None, lineage |-> cached[tax_id], cached |-> cached, lookups |-> 0]
    ELSE IF tax_id \in seen
    THEN [exc |-> "RuntimeError", lineage |-> <<>>, cached |-> cached, lookups |-> 0]
    ELSE LET n == Node(nds, tax_id)
             own == <<<<n.rank, tax_id>>>>
         IN  IF n.exc # None
             THEN [exc |-> n.exc, lineage |-> <<>>, cached |-> cached, lookups |-> 1]
             ELSE IF n.parent_id # tax_id
             THEN LET p == GetLineageFrom(nds, cached, n.parent_id, seen \cup {tax_id})
                  IN  IF p.exc # None
                      THEN [exc |-> p.exc, lineage |-> <<>>, cached |-> cached,
                            lookups |-> p.lookups + 1]
                      ELSE [exc |-> None, lineage |-> p.lineage \o own,
                            cached |-> Put(p.cached, tax_id, p.lineage \o own),
                            lookups |-> p.lookups + 1]
             ELSE [exc |-> None, lineage |-> own, cached |-> Put(cached, tax_id, own),
                   lookups |-> 1]

\* a slip in the caching: only the chain of the taxon asked for is kept
GetLineageLeafOnly(nds, cached, tax_id) ==
    [exc |-> GetLineageFrom(nds, cached, tax_id, {}).exc,
     lineage |-> GetLineageFrom(nds, cached, tax_id, {}).lineage,
     cached |-> IF GetLineageFrom(nds, cached, tax_id, {}).exc = None
                THEN Put(cached, tax_id, GetLineageFrom(nds, cached, tax_id, {}).lineage)
                ELSE cached,
     lookups |-> GetLineageFrom(nds, cached, tax_id, {}).lookups]

\* Taxonomy._get_lineage
GetLineage(nds, cached, tax_id) == GetLineageFrom(nds, cached, tax_id, {})

\* the keys of a lineage record: its rank labels and the fixed fields
Keys(ldict) == DOMAIN ldict.ranks \cup MetaKeys

\* a slip in the unpacking of line 154: parent_id and rank change places
LineageStoreSwapped(s2, tax_id, g, r, n, pn) ==
    IF r.exc # None
    THEN [exc |-> r.exc, val |-> NoRecord, s |-> s2, lookups |-> g.lookups]
    ELSE IF n.exc # None
    THEN [exc |-> n.exc, val |-> NoRecord, s |-> s2, lookups |-> g.lookups + 1]
    ELSE IF pn.exc # None
    THEN [exc |-> pn.exc, val |-> NoRecord, s |-> s2, lookups |-> g.lookups + 2]
    ELSE [exc |-> None,
          val |-> [ranks |-> r.d, tax_id |-> tax_id, parent_id |-> n.rank,
                   rank |-> n.parent_id, tax_name |-> pn.val],
          s |-> [s2 EXCEPT !.taxa = Put(@, tax_id,
                    [ranks |-> r.d, tax_id |-> tax_id, parent_id |-> n.rank,
                     rank |-> n.parent_id, tax_name |-> pn.val])],
          lookups |-> g.lookups + 2]

\* lines 153-156: the record is completed with the row n of the taxon and
\* its primary name pn and stored; s2 is the instance after the renaming r
\* of the chain g
LineageStore(s2, tax_id, g, r, n, pn) ==
    IF r.exc # None
    THEN [exc |-> r.exc, val |-> NoRecord, s |-> s2, lookups |-> g.lookups]
    ELSE IF n.exc # None
    THEN [exc |-> n.exc, val |-> NoRecord, s |-> s2, lookups |-> g.lookups + 1]
    ELSE IF pn.exc # None
    THEN [exc |-> pn.exc, val |-> NoRecord, s |-> s2, lookups |-> g.lookups + 2]
    ELSE [exc |-> None,
          val |-> [ranks |-> r.d, tax_id |-> tax_id, parent_id |-> n.parent_id,
                   rank |-> n.rank, tax_name |-> pn.val],
          s |-> [s2 EXCEPT !.taxa = Put(@, tax_id,
                    [ranks |-> r.d, tax_id |-> tax_id, parent_id |-> n.parent_id,
                     rank |-> n.rank, tax_name |-> pn.val])],
          lookups |-> g.lookups + 2]

\* lines 151-156, with r the outcome of _rename_undefined on the chain g
LineageRenamed(db, s, tax_id, g, r) ==
    LineageStore([s EXCEPT !.cached = g.cached, !.ranks = r.ranks,
                           !.rankset = r.rankset],
                 tax_id, g, r, Node(db.nodes, tax_id), PrimaryName(db.names, tax_id))

\* lines 150-156, with g the outcome of _get_lineage
LineageBuild(db, s, tax_id, g) ==
    IF g.exc # None
    THEN [exc |-> g.exc, val |-> NoRecord, s |-> s, lookups |-> g.lookups]
    ELSE LineageRenamed(db, s, tax_id, g,
                        RenameUndefined(s.ranks, s.rankset, g.lineage))

\* a slip in the cache check: the record is built again on every call
LineageOneNoCache(db, s, tax_id) ==
    LineageBuild(db, s, tax_id, GetLineage(db.nodes, s.cached, tax_id))

\* Taxonomy.lineage up to the store into self.taxa (lines 148-156): what a
\* call with cache_parents=False does
LineageOne(db, s, tax_id) ==
    IF tax_id \in DOMAIN s.taxa
    THEN [exc |-> None, val |-> s.taxa[tax_id], s |-> s, lookups |-> 0]
    ELSE LineageBuild(db, s, tax_id, GetLineage(db.nodes, s.cached, tax_id))

\* line 160: lineage(tid, cache_parents=False) for the elements of the chain
\* from position i on, root first; one is the outcome for element i
RECURSIVE CacheParents(_, _, _, _, _)
CacheParentsStep(db, chain, i, lookups, one) ==
    IF one.exc # None
    THEN [exc |-> one.exc, s |-> one.s, lookups |-> lookups + one.lookups]
    ELSE CacheParents(db, one.s, chain, i + 1, lookups + one.lookups)

\* a slip in the loop: the records of the parents are not built
CacheParentsSkipped(db, s, chain, i, lookups) ==
    [exc |-> None, s |-> s, lookups |-> lookups]

CacheParents(db, s, chain, i, lookups) ==
    IF i > Len(chain)
    THEN [exc |-> None, s |-> s, lookups |-> lookups]
    ELSE CacheParentsStep(db, chain, i, lookups, LineageOne(db, s, chain[i][2]))

\* lines 159-162, with cp the outcome of caching the parents
LineageReturn(one, cp) ==
    [exc |-> cp.exc, val |-> IF cp.exc = None THEN one.val ELSE NoRecord,
     s |-> cp.s, lookups |-> cp.lookups]

\* a slip in the indentation: the parents are cached on a cache hit too
LineageCachedParentsOnHit(db, s, tax_id, cache_parents, one) ==
    IF one.exc # None \/ ~cache_parents
    THEN one
    ELSE LineageReturn(one, CacheParents(db, one.s, one.s.cached[tax_id], 1,
                                         one.lookups))

\* lines 148-162, with one the outcome of lines 148-156
LineageCached(db, s, tax_id, cache_parents, one) ==
    IF tax_id \in DOMAIN s.taxa \/ one.exc # None \/ ~cache_parents
    THEN one
    ELSE LineageReturn(one, CacheParents(db, one.s, one.s.cached[tax_id], 1,
                                         one.lookups))

\* Taxonomy.lineage
Lineage(db, s, tax_id, cache_parents) ==
    LineageCached(db, s, tax_id, cache_parents, LineageOne(db, s, tax_id))

-----------------------------------------------------------------------------
(* Table writer *)

\* a slip in the default: the keys of the lineage cache, not of self.cached
DefaultTaxaFromRecords(s, taxa, keys) ==
    IF taxa = <<>> THEN CHOOSE o \in Orderings(DOMAIN s.taxa) : TRUE ELSE taxa

\* lines 178-179: an omitted or empty taxa argument stands for
\* self.cached.keys(), which come in the dict's order (keys)
DefaultTaxa(s, taxa, keys) == IF taxa = <<>> THEN keys ELSE taxa

\* lines 185-187: the keys of all records of the lineage cache
Represented(s) == UNION {Keys(s.taxa[t]) : t \in DOMAIN s.taxa}

\* a slip in the filter: every registered rank is a column
HeaderRanksAlwaysFull(s, full) == s.ranks

\* lines 182-192: the rank columns
HeaderRanks(s, full) ==
    LET IsRepresented(r) == r \in Represented(s)
    IN  IF full THEN s.ranks ELSE SelectSeq(s.ranks, IsRepresented)

\* line 194
Fields(s, full) == <<"tax_id", "parent_id", "rank", "tax_name">> \o HeaderRanks(s, full)

\* ldict[k]; the fixed fields are assigned after the rank labels
Get(ldict, k) ==
    CASE k = "tax_id" -> ldict.tax_id
      [] k = "parent_id" -> ldict.parent_id
      [] k = "rank" -> ldict.rank
      [] k = "tax_name" -> ldict.tax_name
      [] OTHER -> ldict.ranks[k]

\* csv.DictWriter.writerow with extrasaction='ignore': one cell per field,
\* empty where the record has no such key; keys that are no field are dropped
Row(ldict, fields) ==
    [f \in Range(fields) |-> IF f \in Keys(ldict) THEN Get(ldict, f) ELSE ""]

\* lines 201-205, from position i of the list of tax_ids on; lin is the
\* outcome of self.lineage for position i
RECURSIVE WriteRows(_, _, _, _, _, _)
WriteRow(db, todo, i, fields, rows, lin) ==
    IF lin.exc # None
    THEN [exc |-> lin.exc, s |-> lin.s, rows |-> rows]
    ELSE WriteRows(db, lin.s, todo, i + 1, fields, Append(rows, Row(lin.val, fields)))

WriteRows(db, s, todo, i, fields, rows) ==
    IF i > Len(todo)
    THEN [exc |-> None, s |-> s, rows |-> rows]
    ELSE WriteRow(db, todo, i, fields, rows, Lineage(db, s, todo[i], TRUE))

\* what write_table has written to csvfile: the header and the rows
Written(fields, w) == [exc |-> w.exc, s |-> w.s, header |-> fields, rows |-> w.rows]

\* Taxonomy.write_table
WriteTable(db, s, taxa, full, keys) ==
    Written(Fields(s, full),
            WriteRows(db, s, DefaultTaxa(s, taxa, keys), 1, Fields(s, full), <<>>))

-----------------------------------------------------------------------------
(* Node mutator *)

\* a slip in the recovery: the id of the row that was not inserted
AddSourceNoLookup(src, name) ==
    IF name \in Range(src)
    THEN [source |-> src, source_id |-> ToString(Len(src) + 1), success |-> FALSE]
    ELSE [source |-> Append(src, name), source_id |-> ToString(Len(src) + 1),
          success |-> TRUE]

\* Taxonomy.add_source: the insert fails on a name the relation holds
\* (IntegrityError, caught), and the row's id is looked up instead
AddSource(src, name) ==
    IF name \in Range(src)
    THEN [source |-> src, source_id |-> ToString(Index(src, name)), success |-> FALSE]
    ELSE [source |-> Append(src, name), source_id |-> ToString(Len(src) + 1),
          success |-> TRUE]

\* lines 239-242, with lin the outcome of self.lineage on the new rows
AddNodeReturn(db2, lin) == [exc |-> lin.exc, db |-> db2, s |-> lin.s, val |-> lin.val]

\* lines 235-242, after the insert into nodes has left the store as db2
AddNodeNamed(db2, s, tax_id) == AddNodeReturn(db2, Lineage(db2, s, tax_id, TRUE))

\* lines 230-242, with src the source the row refers to: the insert into
\* nodes raises IntegrityError on a tax_id that has a row
AddNodeInsert(db, s, tax_id, parent_id, rank, tax_name, src) ==
    IF db.nodes[tax_id] # NoRow
    THEN [exc |-> "IntegrityError", db |-> [db EXCEPT !.source = src.source], s |-> s,
          val |-> NoRecord]
    ELSE AddNodeNamed([db EXCEPT
                          !.source = src.source,
                          !.nodes[tax_id] = [parent_id |-> parent_id, rank |-> rank,
                                             source_id |-> src.source_id],
                          !.names[tax_id] = Append(@, tax_name)],
                      s, tax_id)

\* a slip in the argument check: a call without a source goes on
AddNodeNoArgCheck(db, s, tax_id, parent_id, rank, tax_name, source_id, source_name) ==
    AddNodeInsert(db, s, tax_id, parent_id, rank, tax_name,
                  IF source_id = None /\ source_name # None
                  THEN AddSource(db.source, source_name)
                  ELSE [source |-> db.source, source_id |-> source_id,
                        success |-> FALSE])

\* Taxonomy.add_node: every execute() commits on its own
AddNode(db, s, tax_id, parent_id, rank, tax_name, source_id, source_name) ==
    IF source_id = None /\ source_name = None
    THEN [exc |-> "ValueError", db |-> db, s |-> s, val |-> NoRecord]
    ELSE AddNodeInsert(db, s, tax_id, parent_id, rank, tax_name,
                       IF source_id = None
                       THEN AddSource(db.source, source_name)
                       ELSE [source |-> db.source, source_id |-> source_id,
                             success |-> FALSE])

-----------------------------------------------------------------------------
(* State *)

\* the store as the methods see it
Db == [nodes |-> nodes, names |-> names, source |-> source]

\* instance e as the methods see it: its attributes, with the contents of
\* the list object self.ranks refers to
Self(e) == [ranks |-> ranks, rankset |-> eng[e].rankset,
            cached |-> eng[e].cached, taxa |-> eng[e].taxa]

\* the rows a store may hold for tax_id i before the first call: the root
\* is tax_id 1, its own parent, and a row's parent has a smaller tax_id
InitRows(i) ==
    {NoRow} \cup {[parent_id |-> ToString(p), rank |-> r, source_id |-> "1"] :
                     p \in (IF i = 1 THEN {1} ELSE 1..(i - 1)),
                     r \in (IF i = 1 THEN {"root", undefined_rank}
                                     ELSE StoreRanks \ {"root"})}

\* Taxonomy.__init__ with a list of contents rs as ranks
NewInstance(rs) ==
    [constructed |-> TRUE, rankset |-> Range(rs), cached |-> EmptyDict,
     taxa |-> EmptyDict]

\* an instance that has not been constructed
NotConstructed ==
    [constructed |-> FALSE, rankset |-> {}, cached |-> EmptyDict, taxa |-> EmptyDict]

InitStore ==
    /\ \E f \in [1..NumTaxa -> UNION {InitRows(i) : i \in 1..NumTaxa}] :
          /\ \A i \in 1..NumTaxa : f[i] \in InitRows(i)
          /\ nodes = [t \in Ids |-> f[CHOOSE i \in 1..NumTaxa : ToString(i) = t]]
    /\ names \in [Ids -> {<<>>, <<"a taxon">>}]
    /\ Cardinality({t \in Ids : names[t] = <<>>}) <= MaxUnnamed
    /\ source = <<"ncbi">>

Init ==
    /\ InitStore
    /\ ranks = InitRanks
    /\ eng = [e \in Engines |-> IF e = 1 THEN NewInstance(InitRanks) ELSE NotConstructed]
    /\ raised = None
    /\ thr = [t \in Threads |-> NoThread]

\* the state after a method of instance e has left it as s
Store(e, s) ==
    /\ ranks' = s.ranks
    /\ eng' = [eng EXCEPT ![e] = [@ EXCEPT !.rankset = s.rankset, !.cached = s.cached,
                                            !.taxa = s.taxa]]

-----------------------------------------------------------------------------
(* Calls *)

\* the lists of tax_ids handed to write_table; <<>> is an omitted argument
TaxaArgs ==
    {<<>>} \cup UNION {Orderings(S) : S \in {T \in SUBSET Ids :
                                        Cardinality(T) \in 1..MaxTaxaArg}}

NodeCall(tax_id) ==
    /\ raised' = Node(nodes, tax_id).exc
    /\ UNCHANGED <<nodes, names, source, ranks, eng, thr>>

PrimaryNameCall(tax_id) ==
    /\ raised' = PrimaryName(names, tax_id).exc
    /\ UNCHANGED <<nodes, names, source, ranks, eng, thr>>

\* a method of instance e has returned or raised: out.s is the instance
\* it leaves, out.exc the exception
Return(e, out) ==
    /\ Store(e, out.s)
    /\ raised' = out.exc
    /\ UNCHANGED thr

GetLineageOut(s, g) == [exc |-> g.exc, s |-> [s EXCEPT !.cached = g.cached]]

GetLineageCall(e, tax_id) ==
    /\ eng[e].constructed
    /\ Return(e, GetLineageOut(Self(e), GetLineage(nodes, eng[e].cached, tax_id)))
    /\ UNCHANGED <<nodes, names, source>>

LineageCall(e, tax_id, cache_parents) ==
    /\ eng[e].constructed
    /\ Return(e, Lineage(Db, Self(e), tax_id, cache_parents))
    /\ UNCHANGED <<nodes, names, source>>

WriteTableCall(e, taxa, full, keys) ==
    /\ eng[e].constructed
    /\ Return(e, WriteTable(Db, Self(e), taxa, full, keys))
    /\ UNCHANGED <<nodes, names, source>>

AddSourceCall(name) ==
    /\ source' = AddSource(source, name).source
    /\ raised' = None
    /\ UNCHANGED <<nodes, names, ranks, eng, thr>>

\* add_node has returned or raised: out.db is the store it leaves
Commit(e, out) ==
    /\ nodes' = out.db.nodes
    /\ names' = out.db.names
    /\ source' = out.db.source
    /\ Return(e, out)

\* the rows add_node has inserted so far
Added == {t \in Ids : \E i \in DOMAIN names[t] : names[t][i] \in TaxNames}

AddNodeCall(e, tax_id, parent_id, rank, tax_name, source_id, source_name) ==
    /\ eng[e].constructed
    /\ Cardinality(Added) < MaxAdded
    /\ Commit(e, AddNode(Db, Self(e), tax_id, parent_id, rank, tax_name, source_id,
                         source_name))

Next ==
    \/ \E t \in Ids : NodeCall(t)
    \/ \E t \in Ids : PrimaryNameCall(t)
    \/ \E e \in Engines, t \in Ids : GetLineageCall(e, t)
    \/ \E e \in Engines, t \in Ids, cp \in BOOLEAN : LineageCall(e, t, cp)
    \/ \E e \in Engines, taxa \in TaxaArgs, full \in BOOLEAN :
          \E keys \in (IF taxa = <<>> THEN Orderings(DOMAIN eng[e].cached) ELSE {<<>>}) :
             WriteTableCall(e, taxa, full, keys)
    \/ \E name \in SourceNames : AddSourceCall(name)
    \/ \E e \in Engines, t \in Ids, p \in Ids, r \in StoreRanks, n \in TaxNames,
          sid \in {None, "1"}, sname \in {None, "lab"} :
             AddNodeCall(e, t, p, r, n, sid, sname)

Spec == Init /\ [][Next]_vars

-----------------------------------------------------------------------------
(* The taxonomy a store holds, read off the rows alone *)

\* the tax_ids on the parent-pointer path from the root to t, root first;
\* <<>> when the walk up from t meets a missing row or comes back to itself
RECURSIVE PathFrom(_, _, _)
PathFrom(nds, t, seen) ==
    IF nds[t] = NoRow \/ t \in seen
    THEN <<>>
    ELSE IF nds[t].parent_id = t
    THEN <<t>>
    ELSE LET up == PathFrom(nds, nds[t].parent_id, seen \cup {t})
         IN  IF up = <<>> THEN <<>> ELSE Append(up, t)

Path(t) == PathFrom(nodes, t, {})

\* the rank label of the i-th taxon of a path: its stored rank, or for the
\* sentinel the prefix, an underscore and the label of the taxon before it
\* (None for a sentinel root, which has no label)
RECURSIVE RankOf(_, _)
RankOf(path, i) ==
    LET stored == nodes[path[i]].rank
    IN  IF stored # undefined_rank THEN stored
        ELSE IF i = 1 THEN None
        ELSE "below_" \o RankOf(path, i - 1)

\* the instances that exist
Live == {e \in Engines : eng[e].constructed}

\* the last position of a path that carries the label of position i
Deepest(path, i) ==
    CHOOSE j \in DOMAIN path :
        /\ RankOf(path, j) = RankOf(path, i)
        /\ \A k \in DOMAIN path : RankOf(path, k) = RankOf(path, i) => k <= j

-----------------------------------------------------------------------------
(* C1 *)

\* C1 as stated: every lineage record maps the rank label of every taxon
\* of the path from the root to its taxon to that taxon's tax_id.
C1_AncestorsByRank ==
    \A e \in Live : \A b \in DOMAIN eng[e].taxa :
        \A i \in DOMAIN Path(b) :
            /\ RankOf(Path(b), i) \in DOMAIN eng[e].taxa[b].ranks
            /\ eng[e].taxa[b].ranks[RankOf(Path(b), i)] = Path(b)[i]

\* C1 amended: every lineage record maps the rank label of every taxon A of
\* the path from the root to its taxon to the deepest taxon of the path
\* that carries this label, which is A unless a taxon below A on the path
\* has the same label.
C1_AncestorsByRankDeepest ==
    \A e \in Live : \A b \in DOMAIN eng[e].taxa :
        /\ Path(b) # <<>>
        /\ \A i \in DOMAIN Path(b) :
            /\ RankOf(Path(b), i) \in DOMAIN eng[e].taxa[b].ranks
            /\ eng[e].taxa[b].ranks[RankOf(Path(b), i)] = Path(b)[Deepest(Path(b), i)]
            /\ (\A k \in DOMAIN Path(b) :
                   k > i => RankOf(Path(b), k) # RankOf(Path(b), i))
               => eng[e].taxa[b].ranks[RankOf(Path(b), i)] = Path(b)[i]

\* a record of a taxon two levels below the root whose parent has the
\* sentinel rank, so that an ancestor is found under a synthesized label
C1_Witness ==
    \E e \in Live : \E b \in DOMAIN eng[e].taxa :
        /\ Len(Path(b)) = 3
        /\ nodes[Path(b)[2]].rank = undefined_rank
        /\ eng[e].taxa[b].ranks["below_root"] = Path(b)[2]

-----------------------------------------------------------------------------
(* C2 *)

\* the label of taxon t read off the store: that of the last taxon of its path
OwnRank(t) == RankOf(Path(t), Len(Path(t)))

\* C2: in every record of the lineage cache the field rank is the taxon's
\* own final label, so that the record maps it to the taxon itself, and for
\* a taxon of sentinel rank it is the synthesized label, never the sentinel.
C2_RankFieldIsFinalLabel ==
    \A e \in Live : \A t \in DOMAIN eng[e].taxa :
        /\ eng[e].taxa[t].rank \in DOMAIN eng[e].taxa[t].ranks
        /\ eng[e].taxa[t].ranks[eng[e].taxa[t].rank] = t
        /\ eng[e].taxa[t].rank # undefined_rank
        /\ eng[e].taxa[t].rank = OwnRank(t)

-----------------------------------------------------------------------------
(* C3 *)

\* what lineage hands back on a cache hit for tax_id: the cached record,
\* without a lookup, the instance as it was
Hit(s, tax_id) == [exc |-> None, val |-> s.taxa[tax_id], s |-> s, lookups |-> 0]

\* C3: once taxon x has a lineage record (lineage(x) has returned), every
\* call lineage(x) returns that record without a lookup in nodes or names
\* and leaves both caches and the registry as they are, and the record
\* stays the same in every later state, so a second call returns what the
\* first one did.
C3_LineageIdempotent ==
    [][\A e \in Live : \A x \in DOMAIN eng[e].taxa :
          /\ \A cp \in BOOLEAN : Lineage(Db, Self(e), x, cp) = Hit(Self(e), x)
          /\ x \in DOMAIN eng'[e].taxa
          /\ eng'[e].taxa[x] = eng[e].taxa[x]]_vars

\* a call of lineage has returned and left the record of a taxon below the
\* root in the cache
C3_Witness ==
    \E e \in Live : \E x \in DOMAIN eng[e].taxa :
        /\ raised = None
        /\ Len(eng[e].cached[x]) >= 2
        /\ Lineage(Db, Self(e), x, TRUE).val = eng[e].taxa[x]

-----------------------------------------------------------------------------
(* C4 *)

NoDuplicates(rs) == \A i, j \in DOMAIN rs : rs[i] = rs[j] => i = j

\* the taxa of sentinel rank that have a lineage record in instance e
SentinelTaxa(e) == {t \in DOMAIN eng[e].taxa : nodes[t].rank = undefined_rank}

\* the label of the parent of t, read off the store
ParentRank(t) == RankOf(Path(t), Len(Path(t)) - 1)

\* the label under which the record of t holds t itself
OwnKey(ldict) == CHOOSE k \in DOMAIN ldict.ranks : ldict.ranks[k] = ldict.tax_id

\* C4: the registry holds no label twice; two taxa of sentinel rank whose
\* parents carry the same label R get the same label, the prefix, an
\* underscore and R, and the registry holds it once, right after R.
C4_SynthesisDeterministic ==
    \A e \in Live :
        /\ NoDuplicates(ranks)
        /\ \A x, y \in SentinelTaxa(e) :
              ParentRank(x) = ParentRank(y) =>
                 /\ OwnKey(eng[e].taxa[x]) = OwnKey(eng[e].taxa[y])
                 /\ OwnKey(eng[e].taxa[x]) = "below_" \o ParentRank(x)
                 /\ Count(ranks, OwnKey(eng[e].taxa[x])) = 1
                 /\ ParentRank(x) \in Range(ranks)
                 /\ Index(ranks, ParentRank(x)) < Len(ranks)
                 /\ ranks[Index(ranks, ParentRank(x)) + 1] = OwnKey(eng[e].taxa[x])

\* two different taxa of sentinel rank under parents of one label have
\* their records
C4_Witness ==
    \E e \in Live : \E x, y \in SentinelTaxa(e) :
        /\ x # y
        /\ ParentRank(x) = ParentRank(y)
        /\ OwnKey(eng[e].taxa[x]) \in Range(ranks)

-----------------------------------------------------------------------------
(* C5 *)

\* C5: in every record of the lineage cache the keys that are no label of
\* the registry are exactly the four fixed fields.
C5_KeysAreRegistered ==
    \A e \in Live : \A t \in DOMAIN eng[e].taxa :
        Keys(eng[e].taxa[t]) \ Range(ranks) = MetaKeys

-----------------------------------------------------------------------------
(* Calls of write_table in the current state *)

\* the orders in which self.cached.keys() may come for a taxa argument
KeyOrders(e, taxa) ==
    IF taxa = <<>> THEN Orderings(DOMAIN eng[e].cached) ELSE {<<>>}

\* the rank columns of a header
RankColumns(header) == SubSeq(header, 5, Len(header))

\* the tax_ids of the rows written, in the order written
Exported(w) == [i \in DOMAIN w.rows |-> w.rows[i]["tax_id"]]

-----------------------------------------------------------------------------
(* C7 *)

\* C7 as stated: whatever its arguments, write_table leaves the chain
\* cache, the lineage cache and the registry of the instance as they are.
C7_WriteIsProjection ==
    \A e \in Live : \A taxa \in TaxaArgs, full \in BOOLEAN :
        \A keys \in KeyOrders(e, taxa) :
            WriteTable(Db, Self(e), taxa, full, keys).s = Self(e)

\* C7 amended: write_table returns and leaves the chain cache, the lineage
\* cache and the registry as they are whenever every taxon it exports has
\* a lineage record when it is called.
C7_WriteIsProjectionOfRecords ==
    \A e \in Live : \A taxa \in TaxaArgs, full \in BOOLEAN :
        \A keys \in KeyOrders(e, taxa) :
            LET w == WriteTable(Db, Self(e), taxa, full, keys)
            IN  Range(DefaultTaxa(Self(e), taxa, keys)) \subseteq DOMAIN eng[e].taxa
                => (w.s = Self(e) /\ w.exc = None)

\* an instance that holds the record of a taxon below the root but not of
\* its parent, and exports that taxon
C7_Witness ==
    \E e \in Live : \E t \in DOMAIN eng[e].taxa :
        /\ eng[e].taxa[t].parent_id \notin DOMAIN eng[e].taxa
        /\ Len(WriteTable(Db, Self(e), <<t>>, FALSE, <<>>).rows) = 1

-----------------------------------------------------------------------------
(* C8 *)

\* some row of w has a value in column r
HasValue(w, r) == \E i \in DOMAIN w.rows : w.rows[i][r] # ""

\* C8 as stated: with full=False every rank column of the header has a
\* value in at least one of the rows written.
C8_NoEmptyColumn ==
    \A e \in Live : \A taxa \in TaxaArgs : \A keys \in KeyOrders(e, taxa) :
        LET w == WriteTable(Db, Self(e), taxa, FALSE, keys)
        IN  \A r \in Range(RankColumns(w.header)) : HasValue(w, r)

\* C8 amended: with full=False every rank column of the header is a key of
\* at least one record the lineage cache holds when write_table is called;
\* when taxa is omitted and the call returns, at least one of the rows
\* written has a value in it.
C8_ColumnsAreCachedKeys ==
    \A e \in Live : \A taxa \in TaxaArgs : \A keys \in KeyOrders(e, taxa) :
        LET w == WriteTable(Db, Self(e), taxa, FALSE, keys)
        IN  \A r \in Range(RankColumns(w.header)) :
                /\ \E t \in DOMAIN eng[e].taxa : r \in DOMAIN eng[e].taxa[t].ranks
                /\ (taxa = <<>> /\ w.exc = None) => HasValue(w, r)

\* the cache holds a record with a synthesized label while a registered
\* label is a key of no record, and write_table with taxa omitted returns
\* with a rank column
C8_Witness ==
    \E e \in Live : \E keys \in KeyOrders(e, <<>>) :
        LET w == WriteTable(Db, Self(e), <<>>, FALSE, keys)
        IN  /\ "below_root" \in Represented(Self(e))
            /\ \E r \in Range(ranks) : r \notin Represented(Self(e))
            /\ w.exc = None
            /\ Len(RankColumns(w.header)) >= 2

-----------------------------------------------------------------------------
(* C9 *)

\* C9 as stated: with taxa omitted the rows written are those of the taxa
\* that have a record in the lineage cache, one row each.
C9_ExportsLineageCache ==
    \A e \in Live : \A full \in BOOLEAN : \A keys \in KeyOrders(e, <<>>) :
        LET w == WriteTable(Db, Self(e), <<>>, full, keys)
        IN  /\ Range(Exported(w)) = DOMAIN eng[e].taxa
            /\ Len(w.rows) = Cardinality(DOMAIN eng[e].taxa)

\* C9 amended: with taxa omitted the rows written are those of the taxa
\* that have an entry in the ancestor-chain cache when write_table is
\* called, one row each in the order of its keys, provided the call
\* returns (it builds the record of a taxon that has a chain only); when
\* lineage raises for one of them the rows written are those before it.
C9_ExportsChainCache ==
    \A e \in Live : \A full \in BOOLEAN : \A keys \in KeyOrders(e, <<>>) :
        LET w == WriteTable(Db, Self(e), <<>>, full, keys)
        IN  /\ w.exc = None
               => /\ Exported(w) = keys
                  /\ Range(Exported(w)) = DOMAIN eng[e].cached
                  /\ Len(w.rows) = Cardinality(DOMAIN eng[e].cached)
            /\ w.exc # None
               => /\ Len(w.rows) < Len(keys)
                  /\ Exported(w) = SubSeq(keys, 1, Len(w.rows))

\* a chain is cached without a lineage record and write_table with taxa
\* omitted returns with a row for its taxon
C9_Witness ==
    \E e \in Live : \E t \in DOMAIN eng[e].cached : \E keys \in KeyOrders(e, <<>>) :
        LET w == WriteTable(Db, Self(e), <<>>, FALSE, keys)
        IN  /\ t \notin DOMAIN eng[e].taxa
            /\ w.exc = None
            /\ t \in Range(Exported(w))

-----------------------------------------------------------------------------
(* C10 *)

\* the walk up the parent links from t meets a tax_id without a row
RECURSIVE MissingFrom(_, _)
MissingFrom(t, seen) ==
    \/ nodes[t] = NoRow
    \/ /\ nodes[t].parent_id # t
       /\ t \notin seen
       /\ MissingFrom(nodes[t].parent_id, seen \cup {t})

Missing(t) == MissingFrom(t, {})

\* C10: lineage(x) raises KeyError whenever x or a node above it has no
\* row in nodes, and hands back no record nor stores one; primary_name(x)
\* raises KeyError whenever x has no primary-name row.
C10_NotFoundIsRaised ==
    /\ \A e \in Live : \A x \in Ids : \A cp \in BOOLEAN :
          Missing(x) =>
             /\ Lineage(Db, Self(e), x, cp).exc = "KeyError"
             /\ Lineage(Db, Self(e), x, cp).val = NoRecord
             /\ x \notin DOMAIN Lineage(Db, Self(e), x, cp).s.taxa
             /\ x \notin DOMAIN eng[e].taxa
    /\ \A x \in Ids :
          names[x] = <<>> => PrimaryName(names, x) = [exc |-> "KeyError", val |-> None]

\* a call has raised KeyError in a store where a taxon has a row and a
\* name while a node above it has none
C10_Witness ==
    /\ raised = "KeyError"
    /\ \E x \in Ids :
          /\ nodes[x] # NoRow
          /\ names[x] # <<>>
          /\ Missing(x)
          /\ \E e \in Live : Lineage(Db, Self(e), x, TRUE).exc = "KeyError"

-----------------------------------------------------------------------------
(* Two instances over one store, both constructed with the same list      *)
(* object as ranks, as every setUp of the tests does with ncbi.ranks.     *)

\* the stores the two instances start with: a root of rank root, a taxon
\* below it, and a third taxon or none, each with its primary name
InitStoreTwo ==
    /\ \E r2 \in StoreRanks \ {"root"} :
       \E row3 \in {NoRow} \cup {[parent_id |-> p, rank |-> r, source_id |-> "1"] :
                                   p \in {"1", "2"}, r \in StoreRanks \ {"root"}} :
          nodes = [t \in Ids |->
                     IF t = "1" THEN [parent_id |-> "1", rank |-> "root", source_id |-> "1"]
                     ELSE IF t = "2" THEN [parent_id |-> "1", rank |-> r2, source_id |-> "1"]
                     ELSE IF t = "3" THEN row3
                     ELSE NoRow]
    /\ names = [t \in Ids |-> IF nodes[t] = NoRow THEN <<>> ELSE <<"a taxon">>]
    /\ source = <<"ncbi">>

InitTwo ==
    /\ InitStoreTwo
    /\ ranks = InitRanks
    /\ eng = [e \in Engines |-> NewInstance(InitRanks)]
    /\ raised = None
    /\ thr = [t \in Threads |-> NoThread]

\* the calls the two instances take: lineage, write_table, and add_node with
\* the id of the source that exists
NextTwo ==
    \/ \E e \in Engines, t \in Ids : LineageCall(e, t, TRUE)
    \/ \E e \in Engines, taxa \in TaxaArgs, full \in BOOLEAN :
          \E keys \in (IF taxa = <<>> THEN Orderings(DOMAIN eng[e].cached) ELSE {<<>>}) :
             WriteTableCall(e, taxa, full, keys)
    \/ \E e \in Engines, t \in Ids, p \in Ids, r \in StoreRanks, n \in TaxNames :
          AddNodeCall(e, t, p, r, n, "1", None)

SpecTwo == InitTwo /\ [][NextTwo]_vars

-----------------------------------------------------------------------------
(* C6 *)

\* the rank registry of instance o: the list self.ranks refers to and the
\* set self.rankset
RegistryOf(o) == [ranks |-> ranks, rankset |-> eng[o].rankset]

\* C6: a call on one instance (a step that changes its attributes) leaves
\* the registry and both caches of every other instance as they are, and
\* the registry of every instance holds no label twice.
C6_InstancesShareNoState ==
    [][\A e \in Live : \A o \in Live \ {e} :
          eng'[e] # eng[e] =>
             /\ RegistryOf(o)' = RegistryOf(o)
             /\ eng'[o].cached = eng[o].cached
             /\ eng'[o].taxa = eng[o].taxa
             /\ NoDuplicates(RegistryOf(o).ranks')
             /\ NoDuplicates(RegistryOf(e).ranks')]_vars

-----------------------------------------------------------------------------
(* C11 *)

\* C11: a call lineage(x) that raises KeyError (a missing row, or a missing
\* primary name of x or of a taxon above it) leaves no record of x in the
\* lineage cache and leaves the chain cache and the registry as they were,
\* and the same call on what it leaves raises again.
C11_NoPartialSuccess ==
    \A e \in Live : \A x \in Ids : \A cp \in BOOLEAN :
        LET l == Lineage(Db, Self(e), x, cp)
        IN  l.exc = "KeyError"
            => /\ x \notin DOMAIN l.s.taxa
               /\ l.s.cached = eng[e].cached
               /\ l.s.ranks = ranks
               /\ l.s.rankset = eng[e].rankset
               /\ Lineage(Db, l.s, x, cp).exc # None

-----------------------------------------------------------------------------
(* C12 *)

\* the source_id add_source returns is the id of a row that holds name
RowOf(src, source_id, name) ==
    \E i \in DOMAIN src : ToString(i) = source_id /\ src[i] = name

\* C12: the relation source holds no name twice; add_source on a name it
\* holds returns the id of the row of that name with created=False and
\* adds no row, and a second add_source on any name returns the id the
\* first one returned, with created=False, and adds no row.
C12_AddSourceIdempotent ==
    /\ NoDuplicates(source)
    /\ \A name \in SourceNames :
          LET a == AddSource(source, name)
              b == AddSource(a.source, name)
          IN  /\ name \in Range(source)
                 => (a.source = source /\ ~a.success)
              /\ name \notin Range(source)
                 => (a.source = Append(source, name) /\ a.success)
              /\ RowOf(a.source, a.source_id, name)
              /\ b.source_id = a.source_id
              /\ ~b.success
              /\ b.source = a.source
              /\ NoDuplicates(b.source)

\* add_source has added a second row, and a call on its name returns the
\* id of that row with created=False
C12_Witness ==
    /\ source = <<"ncbi", "lab">>
    /\ raised = None
    /\ AddSource(source, "lab") = [source |-> source, source_id |-> "2", success |-> FALSE]

-----------------------------------------------------------------------------
(* C13 *)

\* the arguments of add_node besides the source
NodeArgs == Ids \X Ids \X StoreRanks \X TaxNames

\* C13 as stated: add_node without source_id and source_name raises
\* ValueError and leaves the store and the instance as they are, and so
\* does a call with both of them: only a call with exactly one is accepted.
C13_ExactlyOneSource ==
    \A e \in Live : \A a \in NodeArgs :
        \A sid \in {None, "1"}, sname \in {None, "lab"} :
            LET out == AddNode(Db, Self(e), a[1], a[2], a[3], a[4], sid, sname)
            IN  (sid = None) = (sname = None)
                => (out.exc = "ValueError" /\ out.db = Db /\ out.s = Self(e))

\* C13 amended: add_node without source_id and source_name raises
\* ValueError and leaves the store and the instance as they are; a call
\* with at least one of them gets to the insert into nodes, and a call with
\* both does what the call with the source_id alone does: the source_name
\* is not looked at.
C13_AtLeastOneSource ==
    \A e \in Live : \A a \in NodeArgs :
        LET neither == AddNode(Db, Self(e), a[1], a[2], a[3], a[4], None, None)
            byid == AddNode(Db, Self(e), a[1], a[2], a[3], a[4], "1", None)
            byname == AddNode(Db, Self(e), a[1], a[2], a[3], a[4], None, "lab")
            both == AddNode(Db, Self(e), a[1], a[2], a[3], a[4], "1", "lab")
        IN  /\ neither.exc = "ValueError"
            /\ neither.db = Db
            /\ neither.s = Self(e)
            /\ both = byid
            /\ nodes[a[1]] = NoRow
               => /\ byid.db.nodes[a[1]] = [parent_id |-> a[2], rank |-> a[3],
                                            source_id |-> "1"]
                  /\ byname.db.nodes[a[1]].parent_id = a[2]
                  /\ RowOf(byname.db.source, byname.db.nodes[a[1]].source_id, "lab")
            /\ nodes[a[1]] # NoRow
               => (byid.exc = "IntegrityError" /\ byname.exc = "IntegrityError")

\* add_node has raised ValueError before anything was looked up or
\* inserted, in a store where the call with a source_id inserts the row
C13_Witness ==
    /\ raised = "ValueError"
    /\ Added = {}
    /\ source = <<"ncbi">>
    /\ ranks = InitRanks
    /\ \E e \in Live :
          /\ eng[e] = NewInstance(InitRanks)
          /\ \E a \in NodeArgs :
                AddNode(Db, Self(e), a[1], a[2], a[3], a[4], "1", "lab").exc = None

-----------------------------------------------------------------------------
(* C14 *)

\* the roots of the store: the taxa that are their own parent
Roots == {t \in Ids : nodes[t] # NoRow /\ nodes[t].parent_id = t}

\* C14: lineage(root) returns for a root that has a primary name and a
\* rank other than the sentinel; the record it returns has the root's rank
\* as its only rank key, pointing to the root, next to the four fixed
\* fields, with parent_id equal to tax_id; every record of a root in the
\* lineage cache is of this form.
C14_RootRecord ==
    \A e \in Live : \A t \in Roots :
        LET l == Lineage(Db, Self(e), t, TRUE)
        IN  /\ (l.exc = None)
               = (names[t] # <<>> /\ nodes[t].rank # undefined_rank)
            /\ l.exc = None
               => /\ Keys(l.val) = {nodes[t].rank} \cup MetaKeys
                  /\ l.val.ranks[nodes[t].rank] = t
                  /\ l.val.tax_id = t
                  /\ l.val.parent_id = l.val.tax_id
                  /\ l.s.taxa[t] = l.val
            /\ t \in DOMAIN eng[e].taxa
               => /\ DOMAIN eng[e].taxa[t].ranks = {nodes[t].rank}
                  /\ eng[e].taxa[t].ranks[nodes[t].rank] = t
                  /\ eng[e].taxa[t].parent_id = t
                  /\ eng[e].taxa[t].tax_id = t

\* the lineage cache holds the records of two roots, the one the store
\* started with and one that add_node has inserted
C14_Witness ==
    \E e \in Live : \E t, u \in Roots \cap DOMAIN eng[e].taxa :
        /\ t \notin Added
        /\ u \in Added
        /\ Keys(eng[e].taxa[u]) = {nodes[u].rank} \cup MetaKeys

-----------------------------------------------------------------------------
(* C15 *)

\* C15: every entry cached[t] of the chain cache is the path from the root
\* to t in the store: its elements are the (stored rank, tax_id) of the
\* taxa of the path, root first and t last, each the parent of the next,
\* and for t below the root the chain of its parent is cached and is
\* cached[t] without its last element.
C15_ChainsArePaths ==
    \A e \in Live : \A t \in DOMAIN eng[e].cached :
        LET c == eng[e].cached[t]
        IN  /\ Path(t) # <<>>
            /\ Len(c) = Len(Path(t))
            /\ \A i \in DOMAIN c : c[i] = <<nodes[Path(t)[i]].rank, Path(t)[i]>>
            /\ c[1][2] \in Roots
            /\ c[Len(c)] = <<nodes[t].rank, t>>
            /\ \A i \in 1..(Len(c) - 1) : nodes[c[i + 1][2]].parent_id = c[i][2]
            /\ \A i \in 2..Len(c) : c[i][2] \notin Roots
            /\ t \notin Roots
               => /\ Len(c) >= 2
                  /\ nodes[t].parent_id \in DOMAIN eng[e].cached
                  /\ eng[e].cached[nodes[t].parent_id] = SubSeq(c, 1, Len(c) - 1)

\* the chain of a taxon two levels below the root is cached, and a taxon
\* of it was inserted by add_node
C15_Witness ==
    \E e \in Live : \E t \in DOMAIN eng[e].cached :
        /\ Len(eng[e].cached[t]) = 3
        /\ \E i \in 1..3 : eng[e].cached[t][i][2] \in Added

-----------------------------------------------------------------------------
(* C16 *)

\* the two caches of s hold the same taxa, and with a taxon its parent
Closed(s) ==
    /\ DOMAIN s.cached = DOMAIN s.taxa
    /\ \A t \in DOMAIN s.taxa : nodes[t].parent_id \in DOMAIN s.taxa

\* every taxon of the path from the root to x has a chain and a record in s
PathCached(s, x) ==
    /\ Path(x) # <<>>
    /\ Range(Path(x)) \subseteq DOMAIN s.cached
    /\ Range(Path(x)) \subseteq DOMAIN s.taxa

\* C16 as stated: after a call lineage(x) with cache_parents=True that
\* returns, every taxon of the path from the root to x has a chain in the
\* chain cache and a record in the lineage cache.
C16_DefaultLineageCachesPath ==
    \A e \in Live : \A x \in Ids :
        LET l == Lineage(Db, Self(e), x, TRUE)
        IN  l.exc = None => PathCached(l.s, x)

\* C16 amended: after a call lineage(x) with cache_parents=True that
\* returns and has built the record of x (x had none), every taxon of the
\* path from the root to x has a chain and a record; and a call that
\* returns on an instance whose caches hold the same taxa, closed under
\* taking the parent, leaves them so, with the path of x among them: so
\* they are after every sequence of such calls on a new instance.
C16_BuildCachesPath ==
    \A e \in Live : \A x \in Ids :
        LET l == Lineage(Db, Self(e), x, TRUE)
        IN  /\ (l.exc = None /\ x \notin DOMAIN eng[e].taxa) => PathCached(l.s, x)
            /\ (l.exc = None /\ Closed(Self(e)))
               => (Closed(l.s) /\ PathCached(l.s, x))
            /\ Closed(NewInstance(InitRanks))

\* a call has returned and the caches hold the same taxa, among them one
\* two levels below the root with its parent and the root
C16_Witness ==
    \E e \in Live : \E x \in DOMAIN eng[e].taxa :
        /\ raised = None
        /\ Closed(Self(e))
        /\ Len(Path(x)) = 3
        /\ PathCached(Self(e), x)

-----------------------------------------------------------------------------
(* C17 *)

\* the taxa that s2 holds in cache c and s does not
NewKeys(c, c2) == DOMAIN c2 \ DOMAIN c

\* C17 as stated: a taxon the upward walk has looked up is not looked up
\* again: when lineage(x) is asked again after the walk of a first
\* lineage(x), the walk looks up nothing.
C17_LookedUpOnce ==
    \A e \in Live : \A x \in Ids :
        LET g == GetLineage(nodes, eng[e].cached, x)
        IN  GetLineage(nodes, g.cached, x).lookups = 0

\* C17 amended: the walk of a taxon whose chain is cached looks up nothing;
\* a walk that reaches the root looks up exactly the taxa of the path that
\* had no chain, once each, and caches their chains, so that the walk of
\* any taxon of the path looks up nothing afterwards; a call of lineage
\* that returns makes one such lookup for every chain it adds, next to the
\* two reads (row and primary name) for every record it adds.  A walk that
\* meets a missing row caches nothing and is repeated by the next query.
C17_WalkLooksUpUncached ==
    \A e \in Live : \A x \in Ids :
        LET g == GetLineage(nodes, eng[e].cached, x)
            l == Lineage(Db, Self(e), x, TRUE)
        IN  /\ x \in DOMAIN eng[e].cached
               => (g.lookups = 0 /\ g.cached = eng[e].cached /\ g.exc = None)
            /\ g.exc = None
               => /\ g.lookups = Cardinality(NewKeys(eng[e].cached, g.cached))
                  /\ NewKeys(eng[e].cached, g.cached) \subseteq Range(Path(x))
                  /\ \A y \in Range(Path(x)) :
                        /\ y \in DOMAIN g.cached
                        /\ GetLineage(nodes, g.cached, y).lookups = 0
            /\ g.exc = "KeyError"
               => /\ g.cached = eng[e].cached
                  /\ g.lookups >= 1
                  /\ GetLineage(nodes, g.cached, x).lookups = g.lookups
            /\ l.exc = None
               => l.lookups = Cardinality(NewKeys(eng[e].cached, l.s.cached))
                              + 2 * Cardinality(NewKeys(eng[e].taxa, l.s.taxa))

\* the chains of a taxon and of the root above it are cached, and the walk
\* of a taxon below it that has no chain looks up that taxon alone
C17_Witness ==
    \E e \in Live : \E x \in Ids \ DOMAIN eng[e].cached :
        /\ nodes[x] # NoRow
        /\ nodes[x].parent_id \in DOMAIN eng[e].cached
        /\ Len(eng[e].cached[nodes[x].parent_id]) = 2
        /\ GetLineage(nodes, eng[e].cached, x).lookups = 1
        /\ Len(GetLineage(nodes, eng[e].cached, x).lineage) = 3

-----------------------------------------------------------------------------
(* C18 *)

\* every entry of dict d is in d2, with the same value
Kept(d, d2) == \A t \in DOMAIN d : t \in DOMAIN d2 /\ d2[t] = d[t]

\* rs2 holds the labels of rs, in the order rs has them
OrderKept(rs, rs2) ==
    /\ Range(rs) \subseteq Range(rs2)
    /\ \A i, j \in DOMAIN rs : i < j => Index(rs2, rs[i]) < Index(rs2, rs[j])

\* C18: no step removes or changes an entry of the chain cache or a record
\* of the lineage cache, and no step removes a label from the registry or
\* changes the order of the labels it holds.
C18_CachesArePermanent ==
    [][/\ \A e \in Live : /\ Kept(eng[e].cached, eng'[e].cached)
                          /\ Kept(eng[e].taxa, eng'[e].taxa)
                          /\ eng[e].rankset \subseteq eng'[e].rankset
       /\ OrderKept(ranks, ranks')]_vars

\* the registry has taken two labels and the caches hold three taxa each
C18_Witness ==
    \E e \in Live :
        /\ Len(ranks) = Len(InitRanks) + 2
        /\ Cardinality(DOMAIN eng[e].cached) = 3
        /\ Cardinality(DOMAIN eng[e].taxa) = 3

-----------------------------------------------------------------------------
(* Queries on one instance over a store of four tax_ids, where two taxa of *)
(* sentinel rank can sit below parents of different labels.               *)

OrderIds == {ToString(i) : i \in 1..OrderTaxa}

\* the stores: tax_id 1 is the root, of rank root; the other rows as in
\* InitRows
InitStoreOrder ==
    /\ \E f \in [2..OrderTaxa -> UNION {InitRows(i) : i \in 2..OrderTaxa}] :
          /\ \A i \in 2..OrderTaxa : f[i] \in InitRows(i)
          /\ nodes = [t \in OrderIds |->
                        IF t = "1"
                        THEN [parent_id |-> "1", rank |-> "root", source_id |-> "1"]
                        ELSE f[CHOOSE i \in 2..OrderTaxa : ToString(i) = t]]
    /\ names \in [OrderIds -> {<<>>, <<"a taxon">>}]
    /\ Cardinality({t \in OrderIds : names[t] = <<>>}) <= MaxUnnamed
    /\ source = <<"ncbi">>

InitOrder ==
    /\ InitStoreOrder
    /\ ranks = InitRanks
    /\ eng = [e \in Engines |-> IF e = 1 THEN NewInstance(InitRanks) ELSE NotConstructed]
    /\ raised = None
    /\ thr = [t \in Threads |-> NoThread]

NextOrder == \E t \in OrderIds : LineageCall(1, t, TRUE)

SpecOrder == InitOrder /\ [][NextOrder]_vars

-----------------------------------------------------------------------------
(* C19 *)

\* a new instance constructed over a list of contents rs
Fresh(rs) == [ranks |-> rs, rankset |-> Range(rs), cached |-> EmptyDict,
              taxa |-> EmptyDict]

\* lineage(a) and then lineage(b) on an instance: what each call hands back
\* and the instance the second leaves; first is the outcome of lineage(a)
Both(b, first) ==
    [first |-> [exc |-> first.exc, val |-> first.val],
     second |-> [exc |-> Lineage(Db, first.s, b, TRUE).exc,
                 val |-> Lineage(Db, first.s, b, TRUE).val],
     s |-> Lineage(Db, first.s, b, TRUE).s]

InOrder(s, a, b) == Both(b, Lineage(Db, s, a, TRUE))

-----------------------------------------------------------------------------
(* C20 *)

\* C20: for a taxon whose parent links reach a root the renaming of the
\* chain never inserts a label after a parent label that is not registered
\* or not defined: _rename_undefined raises neither ValueError (list.index
\* of an unregistered parent rank) nor TypeError (no parent rank), and so
\* lineage raises neither.
C20_InsertAfterRegistered ==
    \A e \in Live : \A x \in Ids :
        LET g == GetLineage(nodes, eng[e].cached, x)
        IN  Path(x) # <<>>
            => /\ g.exc = None
               /\ RenameUndefined(ranks, eng[e].rankset, g.lineage).exc = None
               /\ Lineage(Db, Self(e), x, TRUE).exc \notin {"ValueError", "TypeError"}

-----------------------------------------------------------------------------
(* C23 *)

\* C23: whatever the taxa argument and full, every rank key of the lineage
\* record of every row write_table has written is a column of the header,
\* also when the record was built, and labels were registered, by the call.
C23_NoRankLost ==
    \A e \in Live : \A taxa \in TaxaArgs, full \in BOOLEAN :
        \A keys \in KeyOrders(e, taxa) :
            LET w == WriteTable(Db, Self(e), taxa, full, keys)
            IN  \A i \in DOMAIN w.rows :
                    DOMAIN w.s.taxa[w.rows[i]["tax_id"]].ranks
                        \subseteq Range(RankColumns(w.header))

-----------------------------------------------------------------------------
(* C24 *)

\* C24: a call of add_node that raises after its argument check (the
\* tax_id has a row, or the lineage of the new row cannot be built) leaves
\* nodes, names and source with the rows they had and both caches of the
\* instance as they were.
C24_AddNodeAllOrNothing ==
    \A e \in Live : \A a \in NodeArgs :
        \A sid \in {None, "1"}, sname \in {None, "lab"} :
            LET out == AddNode(Db, Self(e), a[1], a[2], a[3], a[4], sid, sname)
            IN  (out.exc # None /\ (sid # None \/ sname # None))
                => /\ out.db = Db
                   /\ out.s.cached = eng[e].cached
                   /\ out.s.taxa = eng[e].taxa

-----------------------------------------------------------------------------
(* Threads.  Each thread calls lineage(x) on instance 1, again and again,  *)
(* and the interpreter may switch threads between any two steps: a call   *)
(* or a return of _get_lineage, an element of the loop of                 *)
(* _rename_undefined, and the membership test, the list.index, the        *)
(* list.insert, the set(self.ranks) and the assignment of self.rankset in *)
(* _add_rank.  Lines 153-162 of lineage are one step.                      *)

\* a slip in the test of line 133: no node is taken for the root
ReachedRootNever(parent_id, tax_id) == FALSE

\* line 133: the walk has reached the root
ReachedRoot(parent_id, tax_id) == parent_id = tax_id

\* a slip in the test of line 68: the label is inserted whether it is
\* registered or not
NotRegisteredAlways(rankset, rank) == TRUE

\* line 68: rank not in self.rankset
NotRegistered(rankset, rank) == rank \notin rankset

\* thread t goes on as r
Goes(t, r) == thr' = [thr EXCEPT ![t] = r]

\* the call of thread t ends, with exception exc or None
Ends(t, exc) ==
    /\ thr' = [thr EXCEPT ![t] = [NotStarted EXCEPT !.pc = "done",
                                                   !.tax_id = thr[t].tax_id,
                                                   !.exc = exc]]
    /\ raised' = exc

\* lines 148-150: lineage(x) returns the cached record or calls _get_lineage
LineageBegin(t, x) ==
    /\ thr[t].pc \in {"ready", "done"}
    /\ IF x \in DOMAIN eng[1].taxa
       THEN /\ thr' = [thr EXCEPT ![t] = [NotStarted EXCEPT !.pc = "done",
                                                          !.tax_id = x]]
            /\ raised' = None
       ELSE /\ Goes(t, [NotStarted EXCEPT !.pc = "call", !.tax_id = x, !.cur = x])
            /\ UNCHANGED raised
    /\ UNCHANGED <<nodes, names, source, ranks, eng>>

\* lines 125-136 up to the recursive call: _get_lineage(cur) is entered
\* with the frames of stack waiting; the interpreter raises RuntimeError
\* when there are RecursionLimit of them
GetLineageEnter(t) ==
    /\ thr[t].pc = "call"
    /\ LET cur == thr[t].cur
           n == Node(nodes, cur)
           own == <<<<n.rank, cur>>>>
       IN  IF Len(thr[t].stack) >= RecursionLimit
           THEN Ends(t, "RuntimeError") /\ UNCHANGED eng
           ELSE IF cur \in DOMAIN eng[1].cached
           THEN /\ Goes(t, [thr[t] EXCEPT !.pc = "return", !.ret = eng[1].cached[cur]])
                /\ UNCHANGED <<eng, raised>>
           ELSE IF n.exc # None
           THEN Ends(t, n.exc) /\ UNCHANGED eng
           ELSE IF ReachedRoot(n.parent_id, cur)
           THEN /\ Goes(t, [thr[t] EXCEPT !.pc = "return", !.ret = own])
                /\ eng' = [eng EXCEPT ![1].cached = Put(@, cur, own)]
                /\ UNCHANGED raised
           ELSE /\ Goes(t, [thr[t] EXCEPT !.stack = Append(@, own[1]),
                                          !.cur = n.parent_id])
                /\ UNCHANGED <<eng, raised>>
    /\ UNCHANGED <<nodes, names, source, ranks>>

\* lines 134-138: a call of _get_lineage returns ret to the frame that
\* waits for it, which caches its own chain, or to lineage (line 150)
GetLineageReturn(t) ==
    /\ thr[t].pc = "return"
    /\ IF thr[t].stack = <<>>
       THEN /\ Goes(t, [thr[t] EXCEPT !.pc = "rename", !.i = 1, !.d = EmptyDict,
                                      !.parent_rank = None])
            /\ UNCHANGED eng
       ELSE LET frame == thr[t].stack[Len(thr[t].stack)]
                lineage == thr[t].ret \o <<frame>>
            IN  /\ Goes(t, [thr[t] EXCEPT !.stack = SubSeq(@, 1, Len(@) - 1),
                                          !.ret = lineage])
                /\ eng' = [eng EXCEPT ![1].cached = Put(@, frame[2], lineage)]
    /\ UNCHANGED <<nodes, names, source, ranks, raised>>

\* lines 109-114: the next element of the chain; an element of undefined
\* rank gets its label (line 111) and _add_rank is called
RenameNext(t) ==
    /\ thr[t].pc = "rename"
    /\ IF thr[t].i > Len(thr[t].ret)
       THEN Goes(t, [thr[t] EXCEPT !.pc = "store"]) /\ UNCHANGED raised
       ELSE LET rank0 == thr[t].ret[thr[t].i][1]
                tax_id == thr[t].ret[thr[t].i][2]
            IN  IF rank0 # undefined_rank
                THEN /\ Goes(t, [thr[t] EXCEPT !.d = Put(@, rank0, tax_id),
                                               !.parent_rank = rank0, !.i = @ + 1])
                     /\ UNCHANGED raised
                ELSE IF thr[t].parent_rank = None
                THEN Ends(t, "TypeError")
                ELSE /\ Goes(t, [thr[t] EXCEPT !.pc = "test",
                                               !.rank = SynthRank(thr[t].parent_rank)])
                     /\ UNCHANGED raised
    /\ UNCHANGED <<nodes, names, source, ranks, eng>>

\* line 68
AddRankTest(t) ==
    /\ thr[t].pc = "test"
    /\ Goes(t, [thr[t] EXCEPT !.pc = IF NotRegistered(eng[1].rankset, thr[t].rank)
                                     THEN "index" ELSE "rebuild"])
    /\ UNCHANGED <<nodes, names, source, ranks, eng, raised>>

\* line 69, self.ranks.index(parent_rank) + 1
AddRankIndex(t) ==
    /\ thr[t].pc = "index"
    /\ IF thr[t].parent_rank \notin Range(ranks)
       THEN Ends(t, "ValueError")
       ELSE /\ Goes(t, [thr[t] EXCEPT !.pc = "insert",
                                      !.idx = Index(ranks, thr[t].parent_rank)])
            /\ UNCHANGED raised
    /\ UNCHANGED <<nodes, names, source, ranks, eng>>

\* line 69, self.ranks.insert
AddRankInsert(t) ==
    /\ thr[t].pc = "insert"
    /\ ranks' = Insert(ranks, thr[t].idx, thr[t].rank)
    /\ Goes(t, [thr[t] EXCEPT !.pc = "rebuild"])
    /\ UNCHANGED <<nodes, names, source, eng, raised>>

\* line 70, set(self.ranks)
AddRankRebuild(t) ==
    /\ thr[t].pc = "rebuild"
    /\ Goes(t, [thr[t] EXCEPT !.pc = "assign", !.tmp = Range(ranks)])
    /\ UNCHANGED <<nodes, names, source, ranks, eng, raised>>

\* line 70, the assignment of self.rankset, and lines 113-114
AddRankAssign(t) ==
    /\ thr[t].pc = "assign"
    /\ eng' = [eng EXCEPT ![1].rankset = thr[t].tmp]
    /\ Goes(t, [thr[t] EXCEPT !.pc = "rename",
                              !.d = Put(@, thr[t].rank, thr[t].ret[thr[t].i][2]),
                              !.parent_rank = thr[t].rank, !.i = @ + 1])
    /\ UNCHANGED <<nodes, names, source, ranks, raised>>

\* lines 153-162 for the dict d of thread t, with one the outcome of lines
\* 153-156
LineageEnd(t, one) ==
    IF one.exc # None
    THEN one
    ELSE LineageReturn(one, CacheParents(Db, one.s, one.s.cached[thr[t].tax_id], 1,
                                         one.lookups))

\* the instance and the exception the call of thread t leaves
LineageLeaves(t, out) ==
    /\ Store(1, out.s)
    /\ Ends(t, out.exc)

LineageFinish(t) ==
    /\ thr[t].pc = "store"
    /\ LineageLeaves(t, LineageEnd(t,
           LineageStore(Self(1), thr[t].tax_id, [lookups |-> 0],
                        [exc |-> None, d |-> thr[t].d],
                        Node(nodes, thr[t].tax_id),
                        PrimaryName(names, thr[t].tax_id))))
    /\ UNCHANGED <<nodes, names, source>>

NextThreads ==
    \/ \E t \in Threads, x \in Ids : LineageBegin(t, x)
    \/ \E t \in Threads : GetLineageEnter(t)
    \/ \E t \in Threads : GetLineageReturn(t)
    \/ \E t \in Threads : RenameNext(t)
    \/ \E t \in Threads : AddRankTest(t)
    \/ \E t \in Threads : AddRankIndex(t)
    \/ \E t \in Threads : AddRankInsert(t)
    \/ \E t \in Threads : AddRankRebuild(t)
    \/ \E t \in Threads : AddRankAssign(t)
    \/ \E t \in Threads : LineageFinish(t)

-----------------------------------------------------------------------------
(* One thread on stores whose parent links may form a cycle *)

\* the rows of a store that may be malformed: any tax_id as the parent
AnyRows(i) ==
    {[parent_id |-> p, rank |-> r, source_id |-> "1"] :
        p \in Ids, r \in (IF i = 1 THEN {"root"} ELSE {undefined_rank, "genus"})}
    \cup (IF i = NumTaxa THEN {NoRow} ELSE {})

InitStoreWalk ==
    /\ \E f \in [1..NumTaxa -> UNION {AnyRows(i) : i \in 1..NumTaxa}] :
          /\ \A i \in 1..NumTaxa : f[i] \in AnyRows(i)
          /\ nodes = [t \in Ids |-> f[CHOOSE i \in 1..NumTaxa : ToString(i) = t]]
    /\ names = [t \in Ids |-> <<"a taxon">>]
    /\ source = <<"ncbi">>

InitWalk ==
    /\ InitStoreWalk
    /\ ranks = InitRanks
    /\ eng = [e \in Engines |-> IF e = 1 THEN NewInstance(InitRanks) ELSE NotConstructed]
    /\ raised = None
    /\ thr = [t \in Threads |-> IF t = 1 THEN NotStarted ELSE NoThread]

\* the interpreter schedules a thread that is in the walk again
SpecWalk ==
    /\ InitWalk
    /\ [][NextThreads]_vars
    /\ WF_vars(\E t \in Threads : GetLineageEnter(t))
    /\ WF_vars(\E t \in Threads : GetLineageReturn(t))

-----------------------------------------------------------------------------
(* C21 *)

\* the parent links from x meet no missing row and no root: they go round
Cyclic(x) == Path(x) = <<>> /\ ~Missing(x)

\* thread t is in the upward walk
Walking(t) == thr[t].pc \in {"call", "return"}

-----------------------------------------------------------------------------
(* Two threads on a store whose parent links reach the root *)

InitStoreRace ==
    /\ \E row2 \in InitRows(2) : \E row3 \in InitRows(3) :
          nodes = [t \in Ids |->
                     IF t = "1" THEN [parent_id |-> "1", rank |-> "root", source_id |-> "1"]
                     ELSE IF t = "2" THEN row2
                     ELSE row3]
    /\ names = [t \in Ids |-> <<"a taxon">>]
    /\ source = <<"ncbi">>

InitRace ==
    /\ InitStoreRace
    /\ ranks = InitRanks
    /\ eng = [e \in Engines |-> IF e = 1 THEN NewInstance(InitRanks) ELSE NotConstructed]
    /\ raised = None
    /\ thr = [t \in Threads |-> NotStarted]

SpecRace == InitRace /\ [][NextThreads]_vars

-----------------------------------------------------------------------------
(* C22 *)

\* the labels the registry holds more than once
Duplicated == {r \in Range(ranks) : Count(ranks, r) > 1}

\* C22: with two threads that call lineage on one instance the registry
\* can come to hold a label twice (the witness), and it does so only by
\* the race: a label it holds twice is a synthesized one, both threads
\* have called lineage, and the step that inserts a label a second time is
\* the list.insert of a thread whose membership test found the label
\* missing before the other thread's insert was in self.rankset.
C22_DuplicateLabelByRace ==
    /\ [](Duplicated # {}
            => /\ Duplicated \cap Range(InitRanks) = {}
               /\ \A t \in Threads : thr[t].pc # "ready")
    /\ [][Duplicated' # Duplicated
            => \E t \in Threads :
                  /\ thr[t].pc = "insert"
                  /\ thr'[t].pc = "rebuild"
                  /\ thr[t].rank \in Range(ranks)
                  /\ Duplicated' = Duplicated \cup {thr[t].rank}]_vars

\* the registry holds the label of the taxa below the root twice
C22_Witness ==
    /\ Count(ranks, "below_root") = 2
    /\ \A t \in Threads : thr[t].pc = "done" /\ thr[t].exc = None

====
